---- MODULE Spec2Model ----
(***************************************************************************)
(* Model of src/src/main.rs: Sender::send_payloads groups payload          *)
(* references into messages whose total size stays below MAX_MSG_SIZE and  *)
(* hands each group to send_msg, reusing one group buffer across calls.    *)
(*                                                                         *)
(* A payload reference (&'b Bytes) is an index into Pool; its length is    *)
(* Pool[p].  send_payloads is modelled statement by statement, pc naming   *)
(* the line that runs next.  sent records the slices handed to send_msg    *)
(* during the current call.  A second Sender, constructed afresh           *)
(* (buffer: Vec::new()) for every call and fed the same iterator, runs     *)
(* beside the long-lived one; the control flow of send_payloads reads      *)
(* msg_size and the iterator only, never the buffer, so both Senders take  *)
(* the same branch at every step.                                          *)
(***************************************************************************)
EXTENDS Integers, Sequences, FiniteSets

\* const MAX_MSG_SIZE: usize = 1400;
MAX_MSG_SIZE == 1400

\* Longest iterator handed to send_payloads.
MaxLen == 3

\* The payloads the caller owns, by length.  send_payloads takes any iterator
\* of &Bytes, so the lengths cover the cases around the limit: empty, small,
\* two distinct payloads of one length, 1389/1390 (10 + len just below / at
\* the limit), 1399 (largest that fits alone) and 1400 (does not fit alone).
Pool == <<0, 10, 500, 500, 1389, 1390, 1399, 1400>>

Payloads == 1..Len(Pool)

\* Bytes::len
PayloadLen(p) == Pool[p]

\* The iterators a call can be given: every sequence of at most MaxLen
\* payload references.
Inputs == UNION {[1..n -> Payloads] : n \in 0..MaxLen}

\* send_msg invocations recorded per call; a call on n payloads that all fit
\* makes at most n of them.
MaxSent == MaxLen + 1

VARIABLES
    pc,          \* the statement of main / send_payloads that runs next
    buffer,      \* Sender.buffer of the Sender main keeps across calls
    payloads,    \* what the peekable iterator has not yielded yet
    msg_size,    \* the local accumulator of send_payloads
    input,       \* the iterator as handed to the current call
    sent,        \* the slices handed to send_msg during the current call
    dirty,       \* whether buffer held references when the current call began
    freshBuffer, \* Sender.buffer of a Sender constructed for the current call
    freshSent    \* the slices that fresh Sender handed to send_msg

vars == <<pc, buffer, payloads, msg_size, input, sent, dirty, freshBuffer, freshSent>>

RECURSIVE SumLen(_)
\* Total byte length of a group of payload references.
SumLen(s) == IF s = <<>> THEN 0 ELSE PayloadLen(Head(s)) + SumLen(Tail(s))

RECURSIVE Concat(_)
\* The messages of a sequence of messages, laid end to end.
Concat(ms) == IF ms = <<>> THEN <<>> ELSE Head(ms) \o Concat(Tail(ms))

Oversized(p) == PayloadLen(p) >= MAX_MSG_SIZE

AllFit(s) == \A i \in 1..Len(s) : ~Oversized(s[i])

\* A clear that leaves the references in place.
ClearKeeps(buf) == buf

\* Vec::clear
Clear(buf) == <<>>

\* An insert at the front instead of a push at the back.
PushFront(buf, p) == <<p>> \o buf

\* Vec::push(IoSlice::new(p))
Push(buf, p) == Append(buf, p)

\* The comparison with payloads of length 0 turned away.
FitsNonEmpty(size, p) == PayloadLen(p) > 0 /\ size + PayloadLen(p) < MAX_MSG_SIZE

\* The comparison one byte too strict.
FitsTight(size, p) == size + PayloadLen(p) + 1 < MAX_MSG_SIZE

\* The comparison with <= in place of <.
FitsInclusive(size, p) == size + PayloadLen(p) <= MAX_MSG_SIZE

\* msg_size + next_payload.len() < MAX_MSG_SIZE
Fits(size, p) == size + PayloadLen(p) < MAX_MSG_SIZE

\* send_msg(self.buffer.as_slice()): the slice is recorded; a call that never
\* returns keeps invoking send_msg, and the record stops growing at MaxSent.
Record(log, buf) == IF Len(log) < MaxSent THEN Append(log, buf) ELSE log

Init ==
    /\ pc = "main"
    /\ buffer = <<>>
    /\ payloads = <<>>
    /\ msg_size = 0
    /\ input = <<>>
    /\ sent = <<>>
    /\ dirty = FALSE
    /\ freshBuffer = <<>>
    /\ freshSent = <<>>

\* main: sender.send_payloads(random_payloads)
Call ==
    /\ pc = "main"
    /\ \E in \in Inputs :
        /\ input' = in
        /\ payloads' = in
    /\ sent' = <<>>
    /\ dirty' = (buffer # <<>>)
    /\ freshBuffer' = <<>>
    /\ freshSent' = <<>>
    /\ pc' = "entry"
    /\ UNCHANGED <<buffer, msg_size>>

\* self.buffer.clear(); let mut payloads = payloads.peekable();
Entry ==
    /\ pc = "entry"
    /\ buffer' = Clear(buffer)
    /\ freshBuffer' = Clear(freshBuffer)
    /\ pc' = "outer"
    /\ UNCHANGED <<payloads, msg_size, input, sent, dirty, freshSent>>

\* A loop that tests after its body: the first pass runs on an exhausted
\* iterator too.
OuterEnterFirst ==
    /\ pc = "outer"
    /\ (payloads # <<>> \/ sent = <<>>)
    /\ pc' = "newmsg"
    /\ UNCHANGED <<buffer, payloads, msg_size, input, sent, dirty, freshBuffer, freshSent>>

\* while payloads.peek().is_some() {   -- Some: enter the body
OuterEnter ==
    /\ pc = "outer"
    /\ payloads # <<>>
    /\ pc' = "newmsg"
    /\ UNCHANGED <<buffer, payloads, msg_size, input, sent, dirty, freshBuffer, freshSent>>

\* while payloads.peek().is_some() {   -- None: send_payloads returns
Return ==
    /\ pc = "outer"
    /\ payloads = <<>>
    /\ pc' = "returned"
    /\ msg_size' = 0
    /\ UNCHANGED <<buffer, payloads, input, sent, dirty, freshBuffer, freshSent>>

\* The start of a message without the clear of the buffer.
NewMsgNoClear ==
    /\ pc = "newmsg"
    /\ msg_size' = 0
    /\ pc' = "grow"
    /\ UNCHANGED <<buffer, freshBuffer, payloads, input, sent, dirty, freshSent>>

\* The start of a message without the reset of msg_size.
NewMsgNoReset ==
    /\ pc = "newmsg"
    /\ buffer' = Clear(buffer)
    /\ freshBuffer' = Clear(freshBuffer)
    /\ pc' = "grow"
    /\ UNCHANGED <<payloads, msg_size, input, sent, dirty, freshSent>>

\* self.buffer.clear(); let mut msg_size = 0;
NewMsg ==
    /\ pc = "newmsg"
    /\ buffer' = Clear(buffer)
    /\ freshBuffer' = Clear(freshBuffer)
    /\ msg_size' = 0
    /\ pc' = "grow"
    /\ UNCHANGED <<payloads, input, sent, dirty, freshSent>>

\* 'msg_growing, the payload fits: msg_size += len; push(next().unwrap())
Grow ==
    /\ pc = "grow"
    /\ payloads # <<>>
    /\ Fits(msg_size, Head(payloads))
    /\ msg_size' = msg_size + PayloadLen(Head(payloads))
    /\ buffer' = Push(buffer, Head(payloads))
    /\ freshBuffer' = Push(freshBuffer, Head(payloads))
    /\ payloads' = Tail(payloads)
    /\ UNCHANGED <<pc, input, sent, dirty, freshSent>>

\* A break that takes the payload that did not fit out of the iterator.
GrowBreakConsumes ==
    /\ pc = "grow"
    /\ payloads # <<>>
    /\ ~Fits(msg_size, Head(payloads))
    /\ payloads' = Tail(payloads)
    /\ pc' = "send"
    /\ UNCHANGED <<buffer, msg_size, input, sent, dirty, freshBuffer, freshSent>>

\* 'msg_growing, the payload does not fit: break 'msg_growing (not consumed)
GrowBreak ==
    /\ pc = "grow"
    /\ payloads # <<>>
    /\ ~Fits(msg_size, Head(payloads))
    /\ pc' = "send"
    /\ UNCHANGED <<buffer, payloads, msg_size, input, sent, dirty, freshBuffer, freshSent>>

\* 'msg_growing, payloads.peek() is None: the while let ends
GrowExhausted ==
    /\ pc = "grow"
    /\ payloads = <<>>
    /\ pc' = "send"
    /\ UNCHANGED <<buffer, payloads, msg_size, input, sent, dirty, freshBuffer, freshSent>>

\* A send that clears the buffer once send_msg has returned.
SendThenClear ==
    /\ pc = "send"
    /\ sent' = Record(sent, buffer)
    /\ freshSent' = Record(freshSent, freshBuffer)
    /\ buffer' = Clear(buffer)
    /\ freshBuffer' = Clear(freshBuffer)
    /\ pc' = "outer"
    /\ UNCHANGED <<payloads, msg_size, input, dirty>>

\* black_box(send_msg(self.buffer.as_slice()));
Send ==
    /\ pc = "send"
    /\ sent' = Record(sent, buffer)
    /\ freshSent' = Record(freshSent, freshBuffer)
    /\ pc' = "outer"
    /\ UNCHANGED <<buffer, payloads, msg_size, input, dirty, freshBuffer>>

\* main: thread::sleep(..); the loop goes round.  The iterator and the record
\* of the finished call are dropped; sender.buffer is what survives.
MainLoop ==
    /\ pc = "returned"
    /\ pc' = "main"
    /\ input' = <<>>
    /\ sent' = <<>>
    /\ dirty' = FALSE
    /\ freshBuffer' = <<>>
    /\ freshSent' = <<>>
    /\ UNCHANGED <<buffer, payloads, msg_size>>

\* The statements of send_payloads.
SendPayloadsStep ==
    \/ Entry
    \/ OuterEnter
    \/ Return
    \/ NewMsg
    \/ Grow
    \/ GrowBreak
    \/ GrowExhausted
    \/ Send

Next ==
    \/ Call
    \/ SendPayloadsStep
    \/ MainLoop

Spec == Init /\ [][Next]_vars

\* send_payloads is synchronous, single-threaded code: once called it keeps
\* executing its next statement.
FairSpec == Spec /\ WF_vars(SendPayloadsStep)

TypeOK ==
    /\ pc \in {"main", "entry", "outer", "newmsg", "grow", "send", "returned"}
    /\ buffer \in Seq(Payloads)
    /\ payloads \in Seq(Payloads)
    /\ msg_size \in 0..(MAX_MSG_SIZE - 1)
    /\ input \in Inputs
    /\ dirty \in BOOLEAN
    /\ Len(sent) <= MaxSent

(***************************************************************************)
(* C1  Size invariant: every message handed to send_msg has a total byte   *)
(* length (the sum of the lengths of the payloads in the group buffer at   *)
(* the time of the call) strictly below MAX_MSG_SIZE, for every input.     *)
(***************************************************************************)
SizeInvariant ==
    /\ pc = "send" => SumLen(buffer) < MAX_MSG_SIZE
    /\ \A i \in 1..Len(sent) : SumLen(sent[i]) < MAX_MSG_SIZE

\* A message of two payloads filling the limit to the last byte is about to
\* be sent.
SizeInvariantWitness ==
    /\ pc = "send"
    /\ Len(buffer) = 2
    /\ SumLen(buffer) = MAX_MSG_SIZE - 1

(***************************************************************************)
(* C2  Order preservation: when no payload of the input has length         *)
(* >= MAX_MSG_SIZE, the messages passed to send_msg during one call, laid  *)
(* end to end in emission order, are the input sequence exactly (nothing   *)
(* reordered, duplicated or lost), the final partial message included.     *)
(***************************************************************************)
OrderPreserved ==
    /\ AllFit(input) =>
        Concat(sent) \o (IF pc \in {"grow", "send"} THEN buffer ELSE <<>>) \o payloads = input
    /\ (pc = "returned" /\ AllFit(input)) => Concat(sent) = input

\* A call on three payloads returned after a full message and a final
\* partial one.
OrderPreservedWitness ==
    /\ pc = "returned"
    /\ AllFit(input)
    /\ Len(input) = 3
    /\ Len(sent) = 2
    /\ Len(sent[2]) = 1
    /\ input[1] # input[2]

(***************************************************************************)
(* C3  Maximality: for every message passed to send_msg except possibly    *)
(* the last of a call, the next payload of the input did not fit: the      *)
(* total length of the flushed message plus the length of the next payload *)
(* is >= MAX_MSG_SIZE.                                                     *)
(***************************************************************************)
Maximality ==
    (pc = "send" /\ payloads # <<>>) =>
        SumLen(buffer) + PayloadLen(Head(payloads)) >= MAX_MSG_SIZE

\* A non-empty message is flushed because the next payload would bring it to
\* exactly MAX_MSG_SIZE.
MaximalityWitness ==
    /\ pc = "send"
    /\ buffer # <<>>
    /\ payloads # <<>>
    /\ ~Oversized(Head(payloads))
    /\ SumLen(buffer) + PayloadLen(Head(payloads)) = MAX_MSG_SIZE

(***************************************************************************)
(* C4  Termination and forward progress: for every finite input, one with  *)
(* a payload of length >= MAX_MSG_SIZE included, a call of send_payloads   *)
(* completes its send_msg invocations and returns; it does not loop        *)
(* forever on the same peeked payload.                                     *)
(***************************************************************************)
Termination == (pc = "entry") ~> (pc = "returned")

(***************************************************************************)
(* C5  Oversized-singleton handling: a payload of length >= MAX_MSG_SIZE   *)
(* in the input is emitted alone as an over-limit message or reported to   *)
(* the caller as an error; it is never dropped silently nor left unsent    *)
(* without an error outcome.  send_payloads returns () and has no error    *)
(* path, which leaves the emission: every call whose input holds such a    *)
(* payload comes to hand it to send_msg as a message of its own.           *)
(***************************************************************************)
EmittedAlone ==
    \E k \in 1..Len(sent) : Len(sent[k]) = 1 /\ Oversized(sent[k][1])

OversizedHandled == (pc = "entry" /\ ~AllFit(input)) ~> EmittedAlone

\* The lengths of the payloads of a group, in order.
Lens(s) == [i \in 1..Len(s) |-> PayloadLen(s[i])]

\* The lengths of the payloads of each message of a sequence of messages.
MsgLens(ms) == [k \in 1..Len(ms) |-> Lens(ms[k])]

RECURSIVE GreedyFrom(_, _, _, _)
\* The reference greedy partition: cur is the message being built, size its
\* total length, out the messages flushed so far.  The next payload is
\* appended while size + len < MAX_MSG_SIZE; otherwise cur is flushed and a
\* new message starts with that payload.
GreedyFrom(rest, cur, size, out) ==
    IF rest = <<>>
    THEN IF cur = <<>> THEN out ELSE Append(out, cur)
    ELSE IF size + PayloadLen(Head(rest)) < MAX_MSG_SIZE
         THEN GreedyFrom(Tail(rest), Append(cur, Head(rest)),
                         size + PayloadLen(Head(rest)), out)
         ELSE GreedyFrom(Tail(rest), <<Head(rest)>>, PayloadLen(Head(rest)),
                         Append(out, cur))

GreedyPartition(in) == GreedyFrom(in, <<>>, 0, <<>>)

(***************************************************************************)
(* C6  Greedy partition: when every payload length is < MAX_MSG_SIZE, the  *)
(* messages passed to send_msg are the reference greedy partition of the   *)
(* input, one send_msg invocation per run.  With MAX_MSG_SIZE = 1400:      *)
(* lengths [500,500,500] give [500,500],[500]; [10,1389] one message;      *)
(* [10,1390] give [10],[1390]; [1399] one message.                         *)
(***************************************************************************)
GreedyPartitionSent ==
    (pc = "returned" /\ AllFit(input)) =>
        /\ sent = GreedyPartition(input)
        /\ Lens(input) = <<500, 500, 500>> => MsgLens(sent) = << <<500, 500>>, <<500>> >>
        /\ Lens(input) = <<10, 1389>> => MsgLens(sent) = << <<10, 1389>> >>
        /\ Lens(input) = <<10, 1390>> => MsgLens(sent) = << <<10>>, <<1390>> >>
        /\ Lens(input) = <<1399>> => MsgLens(sent) = << <<1399>> >>

\* The call on lengths [10, 1390] returned, having sent two messages.
GreedyPartitionWitness ==
    /\ pc = "returned"
    /\ Lens(input) = <<10, 1390>>
    /\ Len(sent) = 2

\* The least element of a non-empty set of numbers.
Least(S) == CHOOSE x \in S : \A y \in S : x <= y

RECURSIVE MinRuns(_)
\* The least number of contiguous runs, each of total length < MAX_MSG_SIZE,
\* that s splits into, over every choice of the first run.
MinRuns(s) ==
    IF s = <<>> THEN 0
    ELSE 1 + Least({MinRuns(SubSeq(s, k + 1, Len(s))) :
                      k \in {j \in 1..Len(s) : SumLen(SubSeq(s, 1, j)) < MAX_MSG_SIZE}})

(***************************************************************************)
(* C7  Minimal message count: when every payload length is < MAX_MSG_SIZE, *)
(* the number of send_msg invocations of a call is the minimum over all    *)
(* partitions of the input, in order, into contiguous runs of total length *)
(* < MAX_MSG_SIZE each.                                                    *)
(***************************************************************************)
MinimalCount ==
    (pc = "returned" /\ AllFit(input)) => Len(sent) = MinRuns(input)

\* A call on three payloads returned with two messages although a split into
\* three runs was possible too.
MinimalCountWitness ==
    /\ pc = "returned"
    /\ AllFit(input)
    /\ Len(input) = 3
    /\ Len(sent) = 2
    /\ SumLen(input) >= MAX_MSG_SIZE

(***************************************************************************)
(* C8  Empty input: a call with an empty payload sequence invokes send_msg *)
(* zero times and returns, whatever the group buffer held before the call. *)
(***************************************************************************)
EmptyInputNoSend ==
    (input = <<>> /\ pc # "main") =>
        /\ pc \in {"entry", "outer", "returned"}
        /\ sent = <<>>

\* A call with an empty input, begun while the buffer still held the last
\* message of the call before, has returned.
EmptyInputWitness ==
    /\ pc = "returned"
    /\ input = <<>>
    /\ dirty
    /\ sent = <<>>

(***************************************************************************)
(* C9  Idempotent recycling: the messages a call emits depend only on the  *)
(* call's input: they are the same, boundaries and contents, on the Sender *)
(* whose buffer earlier calls have left in whatever state as on a Sender   *)
(* with a fresh empty buffer.                                              *)
(***************************************************************************)
RecyclingUnobservable ==
    /\ sent = freshSent
    /\ pc = "send" => buffer = freshBuffer

\* A call that began on a buffer holding references of an earlier call has
\* returned after sending two messages.
RecyclingWitness ==
    /\ pc = "returned"
    /\ dirty
    /\ Len(sent) = 2
    /\ sent = freshSent

\* The last message handed to send_msg in the current call, none if there was
\* no send yet.
LastSent == IF sent = <<>> THEN <<>> ELSE sent[Len(sent)]

(***************************************************************************)
(* C10 (as stated)  Message transience: the buffer is cleared immediately  *)
(* after send_msg; after send_msg returns for the last message and when    *)
(* send_payloads returns, the group buffer holds no payload references.    *)
(***************************************************************************)
ClearedAfterSend ==
    pc \in {"outer", "returned"} => buffer = <<>>

(***************************************************************************)
(* C10 (amended)  The buffer is cleared on entry to send_payloads and at   *)
(* the start of each message, not after send_msg: from the return of       *)
(* send_msg until the next clear, and when send_payloads returns, the      *)
(* buffer still holds the payload references of the last message sent      *)
(* (none only if the call sent no message); main keeps them until the next *)
(* call clears the buffer.                                                 *)
(***************************************************************************)
RetainedUntilNextClear ==
    /\ pc \in {"outer", "newmsg", "returned"} => buffer = LastSent
    /\ (pc = "returned" /\ input # <<>>) => buffer # <<>>

\* send_payloads has returned and the buffer still holds the two payload
\* references of the last message it sent.
RetainedWitness ==
    /\ pc = "returned"
    /\ Len(sent) = 2
    /\ Len(buffer) = 2
    /\ buffer = sent[2]

\* The number of payloads of the input that the first k recorded messages hold.
SentUpTo(k) == Len(Concat(SubSeq(sent, 1, k)))

\* The step of 'msg_growing that leaves the loop on a payload that does not
\* fit.
BreakStep == pc = "grow" /\ pc' = "send" /\ payloads # <<>>

(***************************************************************************)
(* C11  Peek without consume: when the next payload does not fit           *)
(* (msg_size + len >= MAX_MSG_SIZE) it stays in the sequence; the current  *)
(* group is flushed and, if the payload's length is < MAX_MSG_SIZE, that   *)
(* same payload is the first element of the next message passed to         *)
(* send_msg.                                                               *)
(***************************************************************************)
PeekedStartsNextInv ==
    /\ (pc = "send" /\ payloads # <<>>) =>
          /\ ~Fits(msg_size, Head(payloads))
          /\ Head(payloads) = input[Len(input) - Len(payloads) + 1]
          /\ Len(input) - Len(payloads) = Len(Concat(sent)) + Len(buffer)
    /\ \A k \in 1..(Len(sent) - 1) :
          ~Oversized(input[SentUpTo(k) + 1]) =>
              /\ sent[k + 1] # <<>>
              /\ sent[k + 1][1] = input[SentUpTo(k) + 1]

PeekWithoutConsume ==
    /\ []PeekedStartsNextInv
    /\ [][BreakStep => (payloads' = payloads /\ buffer' = buffer)]_vars
    /\ [][(pc = "send" /\ payloads # <<>>) =>
            (sent' = Record(sent, buffer) /\ payloads' = payloads)]_vars

\* A call returned whose first message of two payloads was flushed on a
\* payload that did not fit, and that payload opens the second message.
PeekWithoutConsumeWitness ==
    /\ pc = "returned"
    /\ Len(sent) = 2
    /\ Len(sent[1]) = 2
    /\ sent[2][1] = input[3]
    /\ SumLen(sent[1]) + PayloadLen(input[3]) >= MAX_MSG_SIZE

\* How many payloads the call has taken out of the iterator with next().
Consumed == Len(input) - Len(payloads)

(***************************************************************************)
(* C12  Synchronous in-order sending with a single in-flight group:        *)
(* send_msg is invoked once per message in input order, and at the moment  *)
(* of every send_msg invocation the payloads taken from the source are     *)
(* exactly those of the messages sent so far and of the current one, the   *)
(* one peeked payload (if any) still heading what is left; the buffer      *)
(* holds the current message and no payload of a later one.                *)
(***************************************************************************)
SingleInFlightGroup ==
    pc = "send" =>
        /\ Concat(sent) \o buffer = SubSeq(input, 1, Consumed)
        /\ payloads = SubSeq(input, Consumed + 1, Len(input))
        /\ AllFit(input) =>
              /\ Len(sent) < Len(GreedyPartition(input))
              /\ sent = SubSeq(GreedyPartition(input), 1, Len(sent))
              /\ buffer = GreedyPartition(input)[Len(sent) + 1]

\* The second message of a call is about to be sent while a payload of a
\* third one has been peeked and left in the iterator.
SingleInFlightWitness ==
    /\ pc = "send"
    /\ AllFit(input)
    /\ Len(sent) = 1
    /\ buffer # <<>>
    /\ Len(payloads) = 1

\* The 'msg_growing loop is looking at a payload of length 0.
AtEmptyPayload == pc = "grow" /\ payloads # <<>> /\ PayloadLen(Head(payloads)) = 0

\* Group msg opens with a payload of length 0.
OpensEmpty(msg) == msg # <<>> /\ PayloadLen(msg[1]) = 0

(***************************************************************************)
(* C13  Empty payloads: a payload of length 0 is valid, adds zero to       *)
(* msg_size and is always appended to the message being built when it is   *)
(* reached; it never triggers a flush, so a zero-length payload is the     *)
(* first element of a message only when it is the first payload of the     *)
(* input.                                                                  *)
(***************************************************************************)
EmptyPayloadInv ==
    /\ AtEmptyPayload => msg_size + PayloadLen(Head(payloads)) < MAX_MSG_SIZE
    /\ (pc = "send" /\ payloads # <<>>) => PayloadLen(Head(payloads)) # 0
    /\ \A k \in 1..Len(sent) : OpensEmpty(sent[k]) => (k = 1 /\ sent[k][1] = input[1])
    /\ (pc \in {"grow", "send"} /\ OpensEmpty(buffer)) =>
          (Concat(sent) = <<>> /\ buffer[1] = input[1])

EmptyPayloadAppended ==
    /\ []EmptyPayloadInv
    /\ [][AtEmptyPayload =>
            /\ buffer' = Append(buffer, Head(payloads))
            /\ payloads' = Tail(payloads)
            /\ msg_size' = msg_size
            /\ pc' = "grow"]_vars

\* A message already one byte below the limit took a zero-length payload as
\* well and is about to be sent.
EmptyPayloadWitness ==
    /\ pc = "send"
    /\ Len(buffer) = 2
    /\ PayloadLen(buffer[1]) = MAX_MSG_SIZE - 1
    /\ PayloadLen(buffer[2]) = 0

(***************************************************************************)
(* C14  When every payload length of the input is < MAX_MSG_SIZE, every    *)
(* message passed to send_msg holds at least one payload: send_msg is      *)
(* never invoked with an empty group.                                      *)
(***************************************************************************)
NoEmptyMessage ==
    AllFit(input) =>
        /\ pc = "send" => buffer # <<>>
        /\ \A k \in 1..Len(sent) : sent[k] # <<>>

\* The second message of a call, holding the one payload that did not fit
\* into the first, is about to be sent.
NoEmptyMessageWitness ==
    /\ pc = "send"
    /\ AllFit(input)
    /\ Len(sent) = 1
    /\ Len(buffer) = 1
    /\ payloads = <<>>

(***************************************************************************)
(* C15  In every state reached inside the message-growing loop, msg_size   *)
(* equals the sum of the lengths of the payload references in the group    *)
(* buffer, and msg_size is reset to 0 together with the buffer being       *)
(* cleared at the start of each message.                                   *)
(***************************************************************************)
AccumulatorMatchesBuffer ==
    /\ [](pc \in {"grow", "send"} => msg_size = SumLen(buffer))
    /\ [][pc = "newmsg" => (msg_size' = 0 /\ buffer' = <<>> /\ pc' = "grow")]_vars

\* The loop holds two payloads of different lengths and msg_size is their
\* sum, in the second message of a call.
AccumulatorWitness ==
    /\ pc = "grow"
    /\ sent # <<>>
    /\ Len(buffer) = 2
    /\ PayloadLen(buffer[1]) # PayloadLen(buffer[2])
    /\ msg_size = SumLen(buffer)
    /\ msg_size > 0

====
